---- MODULE Spec2Model ----
(***************************************************************************)
(* Model of taxtastic/refpkg.py: the Refpkg reference package, its         *)
(* manifest (CONTENTS.json), the transaction decorator, the file registry  *)
(* (update_file), the integrity check (isinvalid) and rollback/rollforward.*)
(*                                                                         *)
(* Python values are modelled as follows.  A dict with string keys is a    *)
(* TLA+ function with a set of strings as domain (pop and item assignment  *)
(* change the domain).  The values held by the 'rollback' and              *)
(* 'rollforward' slots are tagged with their Python type, because          *)
(* isinvalid tests it with isinstance: PyNone, PyDict(d), PyList(items).   *)
(* An exception is a record of its class name and message.                 *)
(***************************************************************************)
EXTENDS Integers, Sequences, FiniteSets, TLC

VARIABLES contents, current_transaction, disk, fs, last, ncalls, committed

vars == <<contents, current_transaction, disk, fs, last, ncalls, committed>>

(***************************************************************************)
(* Bounds of the exploration.                                              *)
(***************************************************************************)
MaxCalls == 3
MaxCommits == 2

(***************************************************************************)
(* Python values.                                                          *)
(***************************************************************************)
PyNone == [type |-> "NoneType"]
PyDict(d) == [type |-> "dict", d |-> d]
PyList(items) == [type |-> "list", items |-> items]
EmptyDict == [k \in {} |-> ""]

Pop(d, k) == [x \in DOMAIN d \ {k} |-> d[x]]
SetItem(d, k, v) == [x \in DOMAIN d \cup {k} |-> IF x = k THEN v ELSE d[x]]

NoExc == [type |-> "None", msg |-> ""]
Exc(type, msg) == [type |-> type, msg |-> msg]

(***************************************************************************)
(* The file system.  A path is a directory and a base name; fs maps the    *)
(* paths of the existing files (other than the manifest) to their bytes.   *)
(* The manifest file is held by the variable disk, as a JSON document.     *)
(***************************************************************************)
Path(dirn, base) == [dirn |-> dirn, base |-> base]
path_str(p) == "/" \o p.dirn \o "/" \o p.base
self_path == "pkg"
_manifest_name == "CONTENTS.json"
os_path_join(dirn, base) == Path(dirn, base)
os_path_basename(p) == p.base
os_path_exists(f, p) == p \in DOMAIN f \/ p = Path(self_path, _manifest_name)
os_path_isfile(f, p) == os_path_exists(f, p)
WriteFile(f, p, data) == [x \in DOMAIN f \cup {p} |-> IF x = p THEN data ELSE f[x]]
RemoveFile(f, p) == [x \in DOMAIN f \ {p} |-> f[x]]

\* Files outside the package that callers pass to update_file.
ExtFile == Path("ext", "a.tre")
MissingFile == Path("ext", "gone.tre")
TmpFile == Path("tmp", "tmpA")
ExtData == "A"
ToolData == "R"
CorruptData == "X"

md5_hexdigest(data) == "md5(" \o data \o ")"
md5file(f, p) == md5_hexdigest(f[p])

(***************************************************************************)
(* The manifest.                                                           *)
(***************************************************************************)
manifest_template ==
    [metadata |-> [create_date |-> "2011-01-01 00:00:00", format_version |-> "1.1"],
     files |-> EmptyDict,
     md5 |-> EmptyDict,
     log |-> <<>>,
     rollback |-> PyNone,
     rollforward |-> PyNone]

deepcopy(v) == v

\* json.dump / json.load of a manifest: None <-> null, dict <-> object,
\* list <-> array; strings and the string-to-string dicts are kept.
JNull == [type |-> "null"]
JObject(members) == [type |-> "object", members |-> members]
JArray(items) == [type |-> "array", items |-> items]

RECURSIVE json_dump_dict(_)
RECURSIVE json_dump(_)
json_dump_dict(d) ==
    [k \in DOMAIN d |-> IF k \in {"rollback", "rollforward"} THEN json_dump(d[k]) ELSE d[k]]
json_dump(v) ==
    CASE v.type = "NoneType" -> JNull
      [] v.type = "dict" -> JObject(json_dump_dict(v.d))
      [] v.type = "list" -> JArray(<<v.items[1], json_dump(v.items[2])>>)

RECURSIVE json_load_dict(_)
RECURSIVE json_load(_)
json_load_dict(m) ==
    [k \in DOMAIN m |-> IF k \in {"rollback", "rollforward"} THEN json_load(m[k]) ELSE m[k]]
json_load(j) ==
    CASE j.type = "null" -> PyNone
      [] j.type = "object" -> PyDict(json_load_dict(j.members))
      [] j.type = "array" -> PyList(<<j.items[1], json_load(j.items[2])>>)

(***************************************************************************)
(* The state of one Refpkg object and its directory, as the operators      *)
(* below transform it, and the result of a call: the state it leaves, the  *)
(* exception it raises (NoExc if it returns) and the value it returns.     *)
(***************************************************************************)
State(c, ct, d, f) == [contents |-> c, ct |-> ct, disk |-> d, fs |-> f]
Return(s, ret) == [s |-> s, exc |-> NoExc, ret |-> ret]
Raise(s, e) == [s |-> s, exc |-> e, ret |-> <<>>]

_sync_to_disk(s) == [s EXCEPT !.disk = json_dump(PyDict(s.contents))]

_log(s, msg) == [s EXCEPT !.ct.log = msg]

(***************************************************************************)
(* isinvalid.  The manifest file itself is never removed by an operation   *)
(* of the model, so the first test (no manifest file) never fires.  The    *)
(* loop over files.iteritems() visits the keys in an order the dict        *)
(* chooses: isinvalid_outcomes is the set of results over those orders.    *)
(* The hash-mismatch branch formats four %s with a tuple of two values,    *)
(* which raises TypeError instead of returning the reason.                 *)
(***************************************************************************)
False == "False"

isinvalid_structure(c) ==
    IF "metadata" \notin DOMAIN c THEN "Manifest file missing key metadata"
    ELSE IF "files" \notin DOMAIN c THEN "Manifest file missing key files"
    ELSE IF "md5" \notin DOMAIN c THEN "Manifest file missing key md5"
    ELSE IF "rollback" \notin DOMAIN c THEN "Manifest file missing key rollback"
    ELSE IF c.rollback.type \notin {"dict", "NoneType"}
         THEN "Key rollback in manifest did not refer to a dictionary or None"
    ELSE IF "rollforward" \notin DOMAIN c THEN "Manifest file missing key rollforward"
    ELSE IF c.rollforward.type \notin {"dict", "NoneType"}
         THEN "Key rollforward in manifest did not refer to a dictionary or None"
    ELSE IF "log" \notin DOMAIN c THEN "Manifest file missing key 'log'"
    ELSE IF DOMAIN c.files # DOMAIN c.md5
         THEN "Files and MD5 sums in manifest do not match"
    ELSE False

isinvalid_file(c, f, key) ==
    LET filename == c.files[key]
        expected_md5 == c.md5[key]
        filepath == os_path_join(self_path, filename)
    IN  IF ~os_path_exists(f, filepath)
        THEN [exc |-> NoExc,
              ret |-> "File " \o filename \o " referred to by key " \o key \o " not found in refpkg"]
        ELSE IF md5file(f, filepath) # expected_md5
        THEN [exc |-> Exc("TypeError", "not enough arguments for format string"),
              ret |-> ""]
        ELSE [exc |-> NoExc, ret |-> False]

isinvalid_outcomes(c, f) ==
    IF isinvalid_structure(c) # False
    THEN {[exc |-> NoExc, ret |-> isinvalid_structure(c)]}
    ELSE LET bad == {k \in DOMAIN c.files : isinvalid_file(c, f, k) # [exc |-> NoExc, ret |-> False]}
         IN  IF bad = {} THEN {[exc |-> NoExc, ret |-> False]}
             ELSE {isinvalid_file(c, f, k) : k \in bad}

(***************************************************************************)
(* The bodies of the mutating operations, without the decorator.           *)
(***************************************************************************)
dict_get(d, k) == IF k \in DOMAIN d THEN <<d[k]>> ELSE <<>>

update_metadata_body(s, key, value) ==
    LET old_value == dict_get(s.contents.metadata, key)
        s1 == [s EXCEPT !.contents.metadata = SetItem(@, key, value)]
    IN  Return(_log(s1, "Updated metadata: " \o key \o "=" \o value), old_value)

\* A single test of the name instead of the loop.
unique_filename_once(f, filename) ==
    IF os_path_exists(f, os_path_join(self_path, filename))
    THEN filename \o "1"
    ELSE filename

\* while os.path.exists(os.path.join(self.path, filename)): filename += "1"
RECURSIVE unique_filename(_, _)
unique_filename(f, filename) ==
    IF os_path_exists(f, os_path_join(self_path, filename))
    THEN unique_filename(f, filename \o "1")
    ELSE filename

update_file_body(s, key, new_path) ==
    IF ~os_path_isfile(s.fs, new_path)
    THEN Raise(s, Exc("ValueError", "Cannot update Refpkg with file " \o path_str(new_path)))
    ELSE
    LET md5_value == md5file(s.fs, new_path)
        filename == unique_filename(s.fs, os_path_basename(new_path))
        registered == key \in DOMAIN s.contents.files
        old == os_path_join(self_path, s.contents.files[key])
        dst == os_path_join(self_path, filename)
    IN  IF registered /\ old \notin DOMAIN s.fs
        THEN Raise(s, Exc("OSError", "No such file or directory: " \o path_str(old)))
        ELSE
        LET fs1 == IF registered THEN RemoveFile(s.fs, old) ELSE s.fs
        IN  IF new_path \notin DOMAIN fs1
            THEN Raise([s EXCEPT !.fs = fs1],
                       Exc("IOError", "No such file or directory: " \o path_str(new_path)))
            ELSE
            LET s2 == [s EXCEPT !.fs = WriteFile(fs1, dst, fs1[new_path]),
                                !.contents.files = SetItem(@, key, filename),
                                !.contents.md5 = SetItem(@, key, md5_value)]
            IN  Return(_log(s2, "Updated file: " \o key \o "=" \o path_str(new_path)),
                       <<key, md5_value>>)

(***************************************************************************)
(* The transaction decorator.  r is the result of running the decorated    *)
(* function on the state with the transaction open.                        *)
(***************************************************************************)
NoLogMessage == "(Transaction left no log message)"

\* A snapshot that drops the snapshot the manifest already carries.
transaction_enter_flat(s) ==
    [s EXCEPT !.ct = [type |-> "dict",
                      rollback |-> SetItem(deepcopy(s.contents), "rollback", PyNone),
                      log |-> NoLogMessage]]

transaction_enter(s) ==
    [s EXCEPT !.ct = [type |-> "dict", rollback |-> deepcopy(s.contents), log |-> NoLogMessage]]

\* A commit that stores the snapshot without removing its log.
transaction_commit_keeplog(r) ==
    LET s1 == [r.s EXCEPT !.contents.log = <<r.s.ct.log>> \o @]
        s2 == [s1 EXCEPT !.contents.rollback = PyDict(deepcopy(r.s.ct.rollback))]
        s3 == _sync_to_disk(s2)
    IN  [s |-> [s3 EXCEPT !.ct = PyNone], exc |-> NoExc, ret |-> r.ret]

\* lines 50-54 and the finally clause
transaction_commit(r) ==
    LET s1 == [r.s EXCEPT !.contents.log = <<r.s.ct.log>> \o @]
        s2 == [s1 EXCEPT !.contents.rollback = PyDict(Pop(deepcopy(r.s.ct.rollback), "log"))]
        s3 == _sync_to_disk(s2)
    IN  [s |-> [s3 EXCEPT !.ct = PyNone], exc |-> NoExc, ret |-> r.ret]

\* A revert that leaves the manifest as the body left it.
transaction_revert_keep(r) ==
    [s |-> [r.s EXCEPT !.ct = PyNone],
     exc |-> Exc("AttributeError", "'Refpkg' object has no attribute 'sync_to_disk'"),
     ret |-> <<>>]

\* lines 55-58 and the finally clause: the object has no method
\* sync_to_disk, so the attribute lookup raises before anything is written
\* and before "raise e" is reached.
transaction_revert(r) ==
    LET s1 == [r.s EXCEPT !.contents = deepcopy(r.s.ct.rollback)]
    IN  [s |-> [s1 EXCEPT !.ct = PyNone],
         exc |-> Exc("AttributeError", "'Refpkg' object has no attribute 'sync_to_disk'"),
         ret |-> <<>>]

\* A decorator that takes a snapshot on every entry, nested or not.
transaction_begin_always(s) == transaction_enter(s)

\* line 43 and line 46: the state on which the decorated function runs.
transaction_begin(s) == IF s.ct # PyNone THEN s ELSE transaction_enter(s)

\* A decorator without the finally clause: the transaction stays open.
transaction_stuck(s, r) ==
    IF s.ct # PyNone
    THEN [r EXCEPT !.ret = <<>>]
    ELSE LET t == IF r.exc = NoExc THEN transaction_commit(r) ELSE transaction_revert(r)
         IN  [t EXCEPT !.s.ct = r.s.ct]

\* The decorator around a call made in state s, where r is the result of
\* the decorated function run on transaction_begin(s).
transaction(s, r) ==
    IF s.ct # PyNone
    THEN [r EXCEPT !.ret = <<>>]
    ELSE IF r.exc = NoExc THEN transaction_commit(r) ELSE transaction_revert(r)

update_metadata(s, key, value) ==
    transaction(s, update_metadata_body(transaction_begin(s), key, value))

update_file(s, key, new_path) ==
    transaction(s, update_file_body(transaction_begin(s), key, new_path))

(***************************************************************************)
(* reroot: the external tool either exits with status 0, having written    *)
(* its output to the temporary file, or exits nonzero (check_call raises). *)
(* The finally clause removes the temporary file on both paths.            *)
(***************************************************************************)
\* A reroot that removes the temporary file only when nothing was raised.
reroot_body_leak(s, tool_ok, pretend) ==
    LET s1 == [s EXCEPT !.fs = WriteFile(@, TmpFile, "")]
        s2 == [s1 EXCEPT !.fs = WriteFile(@, TmpFile, ToolData)]
        r == IF ~tool_ok
             THEN Raise(s1, Exc("CalledProcessError", "rppr returned non-zero exit status"))
             ELSE IF ~pretend THEN update_file(s2, "tree", TmpFile)
             ELSE Return(s2, <<>>)
        s3 == [r.s EXCEPT !.fs = RemoveFile(@, TmpFile)]
    IN  IF r.exc # NoExc THEN Raise(r.s, r.exc)
        ELSE Return(_log(s3, "Rerooting refpkg"), <<>>)

reroot_body(s, tool_ok, pretend) ==
    LET s1 == [s EXCEPT !.fs = WriteFile(@, TmpFile, "")]
        s2 == [s1 EXCEPT !.fs = WriteFile(@, TmpFile, ToolData)]
        r == IF ~tool_ok
             THEN Raise(s1, Exc("CalledProcessError", "rppr returned non-zero exit status"))
             ELSE IF ~pretend THEN update_file(s2, "tree", TmpFile)
             ELSE Return(s2, <<>>)
        s3 == [r.s EXCEPT !.fs = RemoveFile(@, TmpFile)]
    IN  IF r.exc # NoExc THEN Raise(s3, r.exc)
        ELSE Return(_log(s3, "Rerooting refpkg"), <<>>)

reroot(s, tool_ok, pretend) ==
    transaction(s, reroot_body(transaction_begin(s), tool_ok, pretend))

(***************************************************************************)
(* A decorated operation whose body calls other decorated operations in    *)
(* sequence and then possibly raises: each inner call takes the first      *)
(* branch of the decorator, as update_file does inside reroot.             *)
(***************************************************************************)
NestedCall(op, key, value, path) == [op |-> op, key |-> key, value |-> value, path |-> path]

nested_call(s, c) ==
    IF c.op = "update_metadata" THEN update_metadata(s, c.key, c.value)
    ELSE update_file(s, c.key, c.path)

RECURSIVE run_calls(_, _)
run_calls(s, calls) ==
    IF calls = <<>> THEN Return(s, <<>>)
    ELSE LET r == nested_call(s, Head(calls))
         IN  IF r.exc # NoExc THEN r ELSE run_calls(r.s, Tail(calls))

composite_body(s, calls, raises) ==
    LET r == run_calls(s, calls)
    IN  IF r.exc # NoExc THEN r
        ELSE IF raises THEN Raise(r.s, Exc("RuntimeError", "body failed"))
        ELSE Return(r.s, <<>>)

composite(s, calls, raises) ==
    transaction(s, composite_body(transaction_begin(s), calls, raises))

(***************************************************************************)
(* rollback and rollforward.  Neither writes the manifest to disk.         *)
(***************************************************************************)
\* A rollback that keeps the newest log entry in the restored log.
rollback_apply_fulllog(s) ==
    LET future_msg == s.contents.log[1]
        rolledback_log == s.contents.log
        rollforward_ == Pop(deepcopy(s.contents), "rollback")
        c1 == s.contents.rollback.d
        c2 == SetItem(c1, "log", rolledback_log)
        c3 == SetItem(c2, "rollforward", PyList(<<future_msg, PyDict(rollforward_)>>))
    IN  Return([s EXCEPT !.contents = c3], <<>>)

\* lines 263-269
rollback_apply(s) ==
    LET future_msg == s.contents.log[1]
        rolledback_log == Tail(s.contents.log)
        rollforward_ == Pop(deepcopy(s.contents), "rollback")
        c1 == s.contents.rollback.d
        c2 == SetItem(c1, "log", rolledback_log)
        c3 == SetItem(c2, "rollforward", PyList(<<future_msg, PyDict(rollforward_)>>))
    IN  Return([s EXCEPT !.contents = c3], <<>>)

\* A rollback that refuses to undo a second time in a row.
rollback_once(s) ==
    IF s.contents.rollback = PyNone \/ s.contents.rollforward # PyNone
    THEN Raise(s, Exc("ValueError", "No operation to roll back on refpkg"))
    ELSE IF s.contents.log = <<>>
    THEN Raise(s, Exc("IndexError", "list index out of range"))
    ELSE rollback_apply(s)

rollback(s) ==
    IF s.contents.rollback = PyNone
    THEN Raise(s, Exc("ValueError", "No operation to roll back on refpkg"))
    ELSE IF s.contents.log = <<>>
    THEN Raise(s, Exc("IndexError", "list index out of range"))
    ELSE rollback_apply(s)

\* A rollforward that does not put the message back in the log.
rollforward_apply_nomsg(s) ==
    LET new_contents == s.contents.rollforward.items[2].d
        n1 == SetItem(new_contents, "log", s.contents.log)
        c1 == Pop(s.contents, "log")
        c2 == SetItem(c1, "rollforward", PyNone)
        n2 == SetItem(n1, "rollback", PyDict(deepcopy(c2)))
    IN  Return([s EXCEPT !.contents = n2], <<>>)

\* lines 274-280
rollforward_apply(s) ==
    LET new_log_message == s.contents.rollforward.items[1]
        new_contents == s.contents.rollforward.items[2].d
        n1 == SetItem(new_contents, "log", <<new_log_message>> \o s.contents.log)
        c1 == Pop(s.contents, "log")
        c2 == SetItem(c1, "rollforward", PyNone)
        n2 == SetItem(n1, "rollback", PyDict(deepcopy(c2)))
    IN  Return([s EXCEPT !.contents = n2], <<>>)

\* A rollforward that returns without an error when there is no redo record.
rollforward_silent(s) ==
    IF s.contents.rollforward = PyNone
    THEN Return(s, <<>>)
    ELSE rollforward_apply(s)

rollforward(s) ==
    IF s.contents.rollforward = PyNone
    THEN Raise(s, Exc("ValueError", "No operation to roll forward on refpkg"))
    ELSE rollforward_apply(s)

(***************************************************************************)
(* Opening an existing package: Refpkg.__init__ loads the manifest and     *)
(* raises ValueError if isinvalid returns a reason; an exception raised by *)
(* isinvalid itself propagates.  v is the outcome of isinvalid.            *)
(***************************************************************************)
__init__(s, v) ==
    LET s1 == [s EXCEPT !.ct = PyNone, !.contents = json_load(s.disk).d]
    IN  IF v.exc # NoExc THEN Raise(s1, v.exc)
        ELSE IF v.ret # False
        THEN Raise(s1, Exc("ValueError", "/pkg is not a valid RefPkg: " \o v.ret))
        ELSE Return(s1, <<>>)

(***************************************************************************)
(* The state machine.  Each action is one call made on the Refpkg object   *)
(* by its user (or one change made to the package directory from outside); *)
(* last records the call and how it ended, ncalls counts the calls, and    *)
(* committed lists the manifest the constructor left and the manifest each *)
(* decorated call that returned left, oldest first.                        *)
(***************************************************************************)
OwnerOps == {"update_metadata", "update_file", "reroot", "composite"}

Keys == {"tree", "aln"}
MetadataKeys == {"author"}
MetadataValues == {"alice", "bob"}

Call(op) ==
    [op |-> op, key |-> "", value |-> "", path |-> ExtFile, tool_ok |-> TRUE,
     pretend |-> FALSE, calls |-> <<>>, raises |-> FALSE, exc |-> NoExc, ret |-> <<>>]

Self == State(contents, current_transaction, disk, fs)

PackageFiles(f) == {p \in DOMAIN f : p.dirn = self_path}
SourcePaths == {ExtFile, MissingFile} \cup PackageFiles(fs)

\* The bodies of the composite operations: no call at all, one file, two
\* files under two keys, the same key twice, and a file with a metadata
\* update in both orders.
UM == NestedCall("update_metadata", "author", "carol", ExtFile)
UF(key) == NestedCall("update_file", key, "", ExtFile)
Bodies ==
    {<<>>, <<UF("tree")>>, <<UF("tree"), UF("aln")>>, <<UF("tree"), UF("tree")>>,
     <<UM, UF("aln")>>, <<UF("aln"), UM>>}

Finish(r, call) ==
    /\ contents' = r.s.contents
    /\ current_transaction' = r.s.ct
    /\ disk' = r.s.disk
    /\ fs' = r.s.fs
    /\ last' = [call EXCEPT !.exc = r.exc, !.ret = r.ret]
    /\ ncalls' = ncalls + 1
    /\ committed' = IF call.op \in OwnerOps /\ r.exc = NoExc
                    THEN Append(committed, r.s.contents)
                    ELSE committed

Init ==
    /\ contents = json_load(json_dump(PyDict(manifest_template))).d
    /\ current_transaction = PyNone
    /\ disk = json_dump(PyDict(manifest_template))
    /\ fs = [p \in {ExtFile} |-> ExtData]
    /\ last = Call("__init__")
    /\ ncalls = 0
    /\ committed = <<json_load(json_dump(PyDict(manifest_template))).d>>

UpdateMetadata(key, value) ==
    /\ ncalls < MaxCalls
    /\ Finish(update_metadata(Self, key, value),
              [Call("update_metadata") EXCEPT !.key = key, !.value = value])

UpdateFile(key, new_path) ==
    /\ ncalls < MaxCalls
    /\ Finish(update_file(Self, key, new_path),
              [Call("update_file") EXCEPT !.key = key, !.path = new_path])

Reroot(tool_ok, pretend) ==
    /\ ncalls < MaxCalls
    /\ Finish(reroot(Self, tool_ok, pretend),
              [Call("reroot") EXCEPT !.tool_ok = tool_ok, !.pretend = pretend])

Composite(calls, raises) ==
    /\ ncalls < MaxCalls
    /\ Finish(composite(Self, calls, raises),
              [Call("composite") EXCEPT !.calls = calls, !.raises = raises])

Rollback ==
    /\ ncalls < MaxCalls
    /\ Finish(rollback(Self), Call("rollback"))

Rollforward ==
    /\ ncalls < MaxCalls
    /\ Finish(rollforward(Self), Call("rollforward"))

\* Refpkg(path) on the existing directory.  When the constructor raises,
\* no new object exists and the caller keeps the one it had.
Open ==
    /\ ncalls < MaxCalls
    /\ \E v \in isinvalid_outcomes(json_load(disk).d, fs) :
          LET r == __init__(Self, v)
          IN  Finish(IF r.exc = NoExc THEN r ELSE Raise(Self, r.exc), Call("__init__"))

IsInvalid ==
    /\ ncalls < MaxCalls
    /\ \E v \in isinvalid_outcomes(contents, fs) :
          Finish([s |-> Self, exc |-> v.exc, ret |-> IF v.exc = NoExc THEN <<v.ret>> ELSE <<>>],
                 Call("isinvalid"))

\* Another program overwrites the bytes of a file of the package.
Corrupt(p) ==
    /\ ncalls < MaxCalls
    /\ fs[p] # CorruptData
    /\ Finish(Return([Self EXCEPT !.fs = WriteFile(@, p, CorruptData)], <<>>),
              [Call("corrupt") EXCEPT !.path = p])

Next ==
    \/ \E key \in MetadataKeys, value \in MetadataValues : UpdateMetadata(key, value)
    \/ \E key \in Keys, new_path \in SourcePaths : UpdateFile(key, new_path)
    \/ \E tool_ok \in BOOLEAN, pretend \in BOOLEAN : Reroot(tool_ok, pretend)
    \/ \E calls \in Bodies, raises \in BOOLEAN : Composite(calls, raises)
    \/ Rollback
    \/ Rollforward
    \/ Open
    \/ IsInvalid
    \/ \E p \in PackageFiles(fs) : Corrupt(p)

Spec == Init /\ [][Next]_vars

(***************************************************************************)
(* Vocabulary of the properties.                                           *)
(***************************************************************************)
\* The call recorded in c was made with no transaction open and raised.
OwnerFailed(c) == c.op \in OwnerOps /\ c.exc # NoExc
\* The call recorded in c was made with no transaction open and returned.
OwnerReturned(c) == c.op \in OwnerOps /\ c.exc = NoExc

\* The body of the operation recorded in c, run on s with the transaction open.
OwnerBody(s, c) ==
    CASE c.op = "update_metadata" -> update_metadata_body(s, c.key, c.value)
      [] c.op = "update_file" -> update_file_body(s, c.key, c.path)
      [] c.op = "reroot" -> reroot_body(s, c.tool_ok, c.pretend)
      [] c.op = "composite" -> composite_body(s, c.calls, c.raises)

\* Every file named in files exists in the package directory with the
\* digest recorded for it, and files and md5 have the same keys.
FileOk(c, f, k) ==
    /\ os_path_join(self_path, c.files[k]) \in DOMAIN f
    /\ md5_hexdigest(f[os_path_join(self_path, c.files[k])]) = c.md5[k]
FilesOk(c, f) ==
    /\ DOMAIN c.files = DOMAIN c.md5
    /\ \A k \in DOMAIN c.files : FileOk(c, f, k)

Ok == [exc |-> NoExc, ret |-> False]

\* C1: when the body of an owner transaction raises, the in-memory
\* manifest afterwards equals the manifest on entry, field for field.
C1_RevertRestoresManifest ==
    [][OwnerFailed(last') => contents' = contents]_vars

\* A body that registered two files raised: the copies it made are in
\* the directory and the manifest names no file, as on entry.
C1_Witness ==
    /\ last.op = "composite" /\ last.raises /\ Len(last.calls) = 2
    /\ last.exc # NoExc
    /\ PackageFiles(fs) # {}
    /\ DOMAIN contents.files = {}

\* C2: after a failed owner transaction the manifest on disk equals the
\* in-memory manifest as it was on entry to the transaction.
C2_RevertPersisted ==
    [][OwnerFailed(last') => json_load(disk') = PyDict(contents)]_vars

\* C3: the error that reaches the caller of a failed owner transaction is
\* the error its body raised.
C3_OriginalErrorReraised ==
    [][OwnerFailed(last') => last'.exc = OwnerBody(transaction_enter(Self), last').exc]_vars

\* C4: a successful owner transaction prepends exactly one message (the
\* last one its body set, or the placeholder), sets rollback to the entry
\* manifest without its log, and leaves the disk equal to the memory.
ExpectedMessage(c) ==
    LET m(n) == IF n.op = "update_metadata"
                THEN "Updated metadata: " \o n.key \o "=" \o n.value
                ELSE "Updated file: " \o n.key \o "=" \o path_str(n.path)
    IN  CASE c.op \in {"update_metadata", "update_file"} -> m(c)
          [] c.op = "reroot" -> "Rerooting refpkg"
          [] c.op = "composite" ->
               IF c.calls = <<>> THEN "(Transaction left no log message)"
               ELSE m(c.calls[Len(c.calls)])

C4_CommitRecordsOneEntry ==
    [][OwnerReturned(last') =>
          /\ contents'.log = <<ExpectedMessage(last')>> \o contents.log
          /\ contents'.rollback = PyDict(Pop(contents, "log"))
          /\ json_load(disk') = PyDict(contents')]_vars

\* A body that made two nested calls committed on top of an earlier entry.
C4_Witness ==
    /\ OwnerReturned(last) /\ last.op = "composite" /\ Len(last.calls) = 2
    /\ Len(contents.log) >= 2

(***************************************************************************)
(* The calls an owner can make in the current state, and their effect.     *)
(***************************************************************************)
OwnerCalls ==
    {[Call("update_metadata") EXCEPT !.key = k, !.value = v] :
        k \in MetadataKeys, v \in MetadataValues}
    \cup {[Call("update_file") EXCEPT !.key = k, !.path = p] : k \in Keys, p \in SourcePaths}
    \cup {[Call("reroot") EXCEPT !.tool_ok = t, !.pretend = d] : t \in BOOLEAN, d \in BOOLEAN}
    \cup {[Call("composite") EXCEPT !.calls = b, !.raises = x] : b \in Bodies, x \in BOOLEAN}

RunOwner(s, c) ==
    CASE c.op = "update_metadata" -> update_metadata(s, c.key, c.value)
      [] c.op = "update_file" -> update_file(s, c.key, c.path)
      [] c.op = "reroot" -> reroot(s, c.tool_ok, c.pretend)
      [] c.op = "composite" -> composite(s, c.calls, c.raises)

SameUpToLog(a, b) ==
    /\ a.metadata = b.metadata /\ a.files = b.files /\ a.md5 = b.md5 /\ a.log = b.log

\* C5 as stated: from any reachable manifest S, a successful mutation to
\* S', then rollback() gives metadata, files, md5 and log of S, and then
\* rollforward() gives metadata, files, md5, log and rollback of S'.
C5_ExactInverses ==
    \A c \in OwnerCalls :
        LET r1 == RunOwner(Self, c)
            r2 == rollback(r1.s)
            r3 == rollforward(r2.s)
        IN  r1.exc = NoExc =>
              /\ r2.exc = NoExc /\ SameUpToLog(r2.s.contents, contents)
              /\ r3.exc = NoExc /\ SameUpToLog(r3.s.contents, r1.s.contents)
              /\ r3.s.contents.rollback = r1.s.contents.rollback

\* C5 (amended): as C5, except that the rollback of the manifest after
\* rollforward() is the rollback of S' with its rollforward field set to
\* None (it is the rollback of S' when S had no rollforward record).
C5_InversesUpToRedoRecord ==
    \A c \in OwnerCalls :
        LET r1 == RunOwner(Self, c)
            r2 == rollback(r1.s)
            r3 == rollforward(r2.s)
        IN  r1.exc = NoExc =>
              /\ r2.exc = NoExc /\ SameUpToLog(r2.s.contents, contents)
              /\ r3.exc = NoExc /\ SameUpToLog(r3.s.contents, r1.s.contents)
              /\ r3.s.contents.rollback =
                    PyDict(SetItem(r1.s.contents.rollback.d, "rollforward", PyNone))
              /\ (contents.rollforward = PyNone =>
                    r3.s.contents.rollback = r1.s.contents.rollback)

\* rollforward() has just redone a mutation that rollback() had undone.
C5_Witness ==
    /\ last.op = "rollforward" /\ last.exc = NoExc
    /\ contents.rollback # PyNone /\ contents.log # <<>>

\* C6: the manifest produced by rollback() on a valid package passes
\* isinvalid, and a package whose persisted manifest holds a rollforward
\* pair opens without error.
C6_RollforwardPairAccepted ==
    /\ (last.op = "rollback" /\ last.exc = NoExc /\ FilesOk(contents, fs))
          => isinvalid_outcomes(contents, fs) = {Ok}
    /\ (last.op = "__init__" /\ ncalls > 0 /\ json_load(disk).d.rollforward.type = "list"
          /\ FilesOk(json_load(disk).d, fs))
          => last.exc = NoExc

\* C7: isinvalid reports success exactly when files and md5 have the same
\* keys and every file named in files has the recorded digest.
C7_ValidateIffFilesOk ==
    last.op = "isinvalid" =>
        ((last.exc = NoExc /\ last.ret = <<False>>) <=> FilesOk(contents, fs))

\* C8: when a registered file exists with bytes that do not have the
\* recorded digest, isinvalid returns a reason (it does not raise), and
\* opening the package raises the ValueError that cites the reason.
HashMismatch(c, f) ==
    /\ isinvalid_structure(c) = False
    /\ \A k \in DOMAIN c.files : os_path_join(self_path, c.files[k]) \in DOMAIN f
    /\ \E k \in DOMAIN c.files : ~FileOk(c, f, k)

C8_HashMismatchReported ==
    /\ (last.op = "isinvalid" /\ HashMismatch(contents, fs))
          => (last.exc = NoExc /\ last.ret # <<False>>)
    /\ (last.op = "__init__" /\ ncalls > 0 /\ HashMismatch(json_load(disk).d, fs))
          => last.exc.type = "ValueError"

\* C9: if the package satisfies the integrity invariants before an owner
\* operation and the operation fails, then afterwards every file named in
\* files exists in the directory with the digest recorded in md5.
C9_FailureKeepsFiles ==
    [][(OwnerFailed(last') /\ FilesOk(contents, fs)) => FilesOk(contents', fs')]_vars

\* C10: rollback() with rollback None raises the "no operation to roll
\* back" ValueError, rollforward() with rollforward None raises the "no
\* operation to roll forward" ValueError, and both leave the in-memory
\* manifest and the manifest on disk as they were.
C10_NoHistoryNoFuture ==
    [][/\ (last'.op = "rollback" /\ contents.rollback = PyNone) =>
            /\ last'.exc = Exc("ValueError", "No operation to roll back on refpkg")
            /\ contents' = contents /\ disk' = disk
       /\ (last'.op = "rollforward" /\ contents.rollforward = PyNone) =>
            /\ last'.exc = Exc("ValueError", "No operation to roll forward on refpkg")
            /\ contents' = contents /\ disk' = disk]_vars

\* A call failed on a manifest that has neither history nor future, after
\* an earlier call had changed the directory.
C10_Witness ==
    /\ last.op \in {"rollback", "rollforward"} /\ last.exc.type = "ValueError"
    /\ contents.rollback = PyNone /\ contents.rollforward = PyNone

(***************************************************************************)
(* Undo and redo in depth: up to MaxCommits decorated calls that return,   *)
(* then rollback() until it raises, then rollforward() until it raises.    *)
(***************************************************************************)
UndoCalls ==
    {[Call("update_metadata") EXCEPT !.key = k, !.value = v] :
        k \in MetadataKeys, v \in MetadataValues}
    \cup {[Call("update_file") EXCEPT !.key = k, !.path = ExtFile] : k \in Keys}
    \cup {[Call("reroot") EXCEPT !.tool_ok = TRUE, !.pretend = FALSE]}
    \cup {[Call("composite") EXCEPT !.calls = <<UF("tree"), UF("aln")>>]}

UndoCommit(c) ==
    /\ Len(committed) - 1 < MaxCommits
    /\ last.op \in OwnerOps \cup {"__init__"}
    /\ RunOwner(Self, c).exc = NoExc
    /\ Finish(RunOwner(Self, c), c)

UndoRollback ==
    /\ \/ last.op \in OwnerOps \cup {"__init__"}
       \/ last.op = "rollback" /\ last.exc = NoExc
    /\ Finish(rollback(Self), Call("rollback"))

UndoRollforward ==
    /\ \/ last.op = "rollback" /\ last.exc # NoExc
       \/ last.op = "rollforward" /\ last.exc = NoExc
    /\ Finish(rollforward(Self), Call("rollforward"))

UndoNext ==
    \/ \E c \in UndoCalls : UndoCommit(c)
    \/ UndoRollback
    \/ UndoRollforward

SpecUndo == Init /\ [][UndoNext]_vars

\* The number of transactions committed since the package was created.
NCommitted == Len(committed) - 1

\* C11: after n committed transactions on a fresh package, the k-th of n
\* successive rollback() calls succeeds and restores metadata, files, md5
\* and log as they were before transaction n-k+1, the (n+1)-th raises the
\* "no operation to roll back" error, and the j-th of n following
\* rollforward() calls succeeds and restores them as they were after
\* transaction j (after the n-th: as after the last transaction).
C11_MultiLevelUndo ==
    [][/\ last'.op = "rollback" =>
            IF ncalls' - NCommitted <= NCommitted
            THEN /\ last'.exc = NoExc
                 /\ SameUpToLog(contents', committed[NCommitted - (ncalls' - NCommitted) + 1])
            ELSE last'.exc = Exc("ValueError", "No operation to roll back on refpkg")
       /\ (last'.op = "rollforward" /\ ncalls' - (2 * NCommitted + 1) <= NCommitted) =>
            /\ last'.exc = NoExc
            /\ SameUpToLog(contents', committed[ncalls' - (2 * NCommitted + 1) + 1])]_vars

\* Two transactions were committed, undone and redone, and the two
\* committed manifests differ.
C11_Witness ==
    /\ NCommitted = 2 /\ ncalls = 3 * NCommitted + 1
    /\ last.op = "rollforward" /\ last.exc = NoExc
    /\ ~SameUpToLog(committed[2], committed[3])
    /\ SameUpToLog(contents, committed[3])

\* C12: a decorated operation called while a transaction is open takes
\* no snapshot, adds no log entry, does not write the manifest to disk and
\* leaves the transaction open; an error it raises makes the owner fail
\* with the manifest as on entry; an owner that returns has added exactly
\* one log entry, however many nested operations it ran.
RECURSIVE NestedCallsJoin(_, _, _)
NestedCallsJoin(entry, s, calls) ==
    \/ calls = <<>>
    \/ LET r == nested_call(s, Head(calls))
       IN  /\ r.s.ct # PyNone
           /\ r.s.ct.rollback = entry
           /\ r.s.contents.log = entry.log
           /\ r.s.contents.rollback = entry.rollback
           /\ r.s.disk = s.disk
           /\ r.exc = NoExc => NestedCallsJoin(entry, r.s, Tail(calls))

C12_NestedJoinsOwner ==
    [][/\ last'.op = "composite" =>
            /\ NestedCallsJoin(contents, transaction_enter(Self), last'.calls)
            /\ run_calls(transaction_enter(Self), last'.calls).exc # NoExc =>
                  (last'.exc # NoExc /\ contents' = contents)
       /\ last'.op = "reroot" =>
            LET s2 == [transaction_enter(Self) EXCEPT !.fs = WriteFile(@, TmpFile, ToolData)]
                r == update_file(s2, "tree", TmpFile)
            IN  /\ r.s.ct # PyNone /\ r.s.ct.rollback = contents
                /\ r.s.contents.log = contents.log
                /\ r.s.contents.rollback = contents.rollback
                /\ r.s.disk = disk
                /\ (last'.tool_ok /\ ~last'.pretend /\ r.exc # NoExc) =>
                      (last'.exc # NoExc /\ contents' = contents)
       /\ OwnerReturned(last') => Len(contents'.log) = Len(contents.log) + 1]_vars

\* An owner whose body made two nested calls, the second replacing the
\* file the first had registered, returned with a single log entry.
C12_Witness ==
    /\ last.op = "composite" /\ last.calls = <<UF("tree"), UF("tree")>>
    /\ last.exc = NoExc
    /\ ncalls = 1 /\ Len(contents.log) = 1
    /\ contents.rollback = PyDict(Pop(committed[1], "log"))

\* C13: when a call has completed, by returning or by raising, no
\* transaction is open, so the next decorated call takes a snapshot of the
\* manifest as it then is.
C13_TransactionCleared ==
    /\ current_transaction = PyNone
    /\ transaction_begin(Self).ct.rollback = contents

\* A decorated call raised on the revert path, after an earlier call.
C13_Witness ==
    /\ OwnerFailed(last) /\ last.exc.type = "AttributeError"
    /\ ncalls >= 2

\* C14: a successful update_file(key, source) stores the copy under the
\* source's base name followed by the fewest "1"s that give a name unused
\* in the directory before the call, removes only the file that was
\* registered under key, leaves the other files as they were, and sets
\* files[key] to the name and md5[key] to the digest of the source.
RECURSIVE Suffixed(_, _)
Suffixed(base, n) == IF n = 0 THEN base ELSE Suffixed(base, n - 1) \o "1"

C14_UpdateFileEffect ==
    [][(last'.op = "update_file" /\ last'.exc = NoExc) =>
          LET key == last'.key
              src == last'.path
              name == contents'.files[key]
              new == Path(self_path, name)
              old == IF key \in DOMAIN contents.files
                     THEN {Path(self_path, contents.files[key])} ELSE {}
          IN  /\ new \notin DOMAIN fs
              /\ \E n \in 0..Cardinality(DOMAIN fs) :
                    /\ name = Suffixed(src.base, n)
                    /\ \A m \in 0..(n - 1) : Path(self_path, Suffixed(src.base, m)) \in DOMAIN fs
              /\ DOMAIN fs' = (DOMAIN fs \ old) \cup {new}
              /\ \A p \in DOMAIN fs' \ {new} : fs'[p] = fs[p]
              /\ fs'[new] = fs[src]
              /\ contents'.md5[key] = md5_hexdigest(fs[src])
              /\ DOMAIN contents'.files = DOMAIN contents.files \cup {key}
              /\ \A k \in DOMAIN contents.files \ {key} :
                    /\ contents'.files[k] = contents.files[k]
                    /\ contents'.md5[k] = contents.md5[k]]_vars

\* update_file replaced the file of a key while a.tre and a.tre1 were
\* both in use, so the copy went to a.tre11.
C14_Witness ==
    /\ last.op = "update_file" /\ last.exc = NoExc
    /\ contents.files[last.key] = "a.tre11"
    /\ Cardinality(PackageFiles(fs)) = 2

\* The number of snapshots nested one inside the other below the
\* manifest d, through rollback or through the redo record.
RECURSIVE Depth(_)
Depth(d) ==
    LET rb == IF "rollback" \in DOMAIN d /\ d.rollback # PyNone
              THEN 1 + Depth(d.rollback.d) ELSE 0
        rf == IF "rollforward" \in DOMAIN d /\ d.rollforward # PyNone
              THEN 1 + Depth(d.rollforward.items[2].d) ELSE 0
    IN  IF rb >= rf THEN rb ELSE rf

\* C15 as stated: a snapshot embedded in the manifest embeds at most one
\* further snapshot, that is, snapshots nest at most two levels deep.
C15_DepthAtMostTwo == Depth(contents) <= 2

\* C15: snapshots nest no deeper than the number of calls made on the
\* package, and after n calls that were all committed transactions they
\* nest exactly n levels deep.
C15_DepthAtMostCalls ==
    /\ Depth(contents) <= ncalls
    /\ Len(committed) = ncalls + 1 => Depth(contents) = ncalls

\* Three committed transactions left three nested snapshots.
C15_Witness ==
    /\ ncalls = 3 /\ Len(committed) = 4
    /\ Depth(contents) = 3
    /\ contents.rollback.d.rollback.d.rollback.d.rollback = PyNone

\* C16: when reroot has returned or raised, the temporary file does not
\* exist; when the tool exits nonzero reroot raises, the manifest in memory
\* is the one before the call and the directory holds the files it held.
C16_RerootTempRemoved ==
    [][last'.op = "reroot" =>
          /\ TmpFile \notin DOMAIN fs'
          /\ ~last'.tool_ok =>
                /\ last'.exc # NoExc
                /\ contents' = contents
                /\ fs' = fs]_vars

\* reroot raised because the tool failed, on a package whose tree had been
\* registered by an earlier call.
C16_Witness ==
    /\ last.op = "reroot" /\ ~last.tool_ok /\ last.exc # NoExc
    /\ "tree" \in DOMAIN contents.files
    /\ Len(contents.log) = 1
    /\ TmpFile \notin DOMAIN fs

\* C17: when a decorated call has returned right after a successful
\* rollback(), rollforward() either raises "No operation to roll forward"
\* or gives a manifest in which every metadata, files and md5 entry that
\* the call set still has the value the call gave it.
C17_CommitInvalidatesRedo ==
    [][(last.op = "rollback" /\ last.exc = NoExc /\ OwnerReturned(last')) =>
          LET r == rollforward(State(contents', current_transaction', disk', fs'))
              Kept(field) ==
                  \A k \in DOMAIN contents'[field] :
                      (k \notin DOMAIN contents[field] \/ contents[field][k] # contents'[field][k])
                          => /\ k \in DOMAIN r.s.contents[field]
                             /\ r.s.contents[field][k] = contents'[field][k]
          IN  \/ r.exc = Exc("ValueError", "No operation to roll forward on refpkg")
              \/ r.exc = NoExc /\ Kept("metadata") /\ Kept("files") /\ Kept("md5")]_vars

\* C18: when update_file has replaced the file registered under a key of a
\* package whose files were all present with their digests, a rollback()
\* that returns leaves every file named in files present in the directory
\* with the digest recorded in md5.
C18_RollbackKeepsFilesValid ==
    [][(/\ last'.op = "update_file" /\ last'.exc = NoExc
        /\ last'.key \in DOMAIN contents.files
        /\ FilesOk(contents, fs)) =>
          LET r == rollback(State(contents', current_transaction', disk', fs'))
          IN  r.exc = NoExc => FilesOk(r.s.contents, r.s.fs)]_vars

\* C19: no two distinct keys of files map to the same filename.
C19_FilenamesDistinct ==
    \A k1, k2 \in DOMAIN contents.files :
        k1 # k2 => contents.files[k1] # contents.files[k2]

\* The number of snapshots chained through rollback below the manifest d.
RECURSIVE RollbackChain(_)
RollbackChain(d) ==
    IF "rollback" \in DOMAIN d /\ d.rollback # PyNone
    THEN 1 + RollbackChain(d.rollback.d)
    ELSE 0

\* C20: the log has as many entries as there are snapshots chained through
\* rollback, so a manifest that has a snapshot has a log entry, and no call
\* fails with an index error while taking the newest log entry.
C20_LogMatchesRollbackChain ==
    /\ Len(contents.log) = RollbackChain(contents)
    /\ contents.rollback # PyNone => contents.log # <<>>
    /\ last.exc.type # "IndexError"

\* rollback() undid the second of two commits: one log entry and one
\* snapshot are left, and the redo record is set.
C20_Witness ==
    /\ last.op = "rollback" /\ last.exc = NoExc
    /\ Len(contents.log) = 1
    /\ contents.rollback # PyNone /\ contents.rollback.d.rollback = PyNone
    /\ contents.rollforward # PyNone

====
